---------------------------- MODULE Spec2Model ----------------------------
(***************************************************************************)
(* Room state machine of the collaborative code editor backend             *)
(* (socket.io handlers of the server, src/unnamed/part_000).               *)
(*                                                                         *)
(* JavaScript values are modelled as strings: Undefined is an absent       *)
(* field, Null is null, "" is the empty string.  A socket.io broadcast     *)
(* group is the set of open sockets that called socket.join(roomId).       *)
(* Every handler is one atomic action (Node's single-threaded event loop). *)
(* `last` records the event handled last, `out` the emit calls it made,    *)
(* each with the set of sockets the call reaches; `gone` records the ids   *)
(* of the rooms deleted by a disconnect and not created again since.       *)
(* `files` is the temporary directory of the execution service, `reqs` the *)
(* /api/execute requests, `shown` the output panel of each client and      *)
(* `uuids` the number of identifiers uuidv4() has returned.  `clients` is   *)
(* the state of the browser tabs that run the React client, with the       *)
(* messages in flight between each tab and the server.                     *)
(***************************************************************************)
EXTENDS Naturals, FiniteSets, Sequences

VARIABLES rooms, subs, connected, now, last, out, gone,
          files, reqs, shown, uuids, clients

\* the state of the code execution service and of the clients' output panels
exec == <<files, reqs, shown, uuids>>

vars == <<rooms, subs, connected, now, last, out, gone,
          files, reqs, shown, uuids, clients>>

(* ------------------------------ bounds --------------------------------- *)
\* number of connections (socket ids); all are open in the initial state,
\* a connection that has sent nothing yet is one that connects later
NumConns == 3
\* last value of the clock
MaxTime == 2
\* number of /api/execute requests
NumReqs == 2
\* number of identifiers uuidv4() hands out
MaxUuids == 2
\* number of things the user of one browser tab does
MaxActs == 3

Conns == 1..NumConns
Reqs == 1..NumReqs
\* the identifiers generateRoomId can return
RoomIds == {"R1", "R2"}

(* --------------------------- JavaScript values ------------------------- *)
Undefined == "undefined"
Null == "null"
Falsy == {Undefined, Null, ""}
Truthy(v) == v \notin Falsy
\* a || b
Or(a, b) == IF Truthy(a) THEN a ELSE b

(* ------------------------------ templates ------------------------------ *)
SupportedLanguages == {"javascript", "python", "java", "cpp", "c"}

templates ==
  [javascript |-> "// JavaScript - Collaborative Editing",
   python     |-> "# Python - Collaborative Editing",
   java       |-> "// Java - Collaborative Editing",
   cpp        |-> "// C++ - Collaborative Editing",
   c          |-> "// C - Collaborative Editing"]

\* property names every object literal inherits from Object.prototype
ObjectPrototypeKeys == {"constructor"}
ObjectConstructor == "[Function: Object]"

\* templates[language]: own property, else inherited property, else undefined
templatesGet(language) ==
  IF language \in DOMAIN templates THEN templates[language]
  ELSE IF language \in ObjectPrototypeKeys THEN ObjectConstructor
  ELSE Undefined

getDefaultCode(language) == Or(templatesGet(language), templates["javascript"])

(* ------------------------------- palette ------------------------------- *)
colors == <<"#00d9ff", "#ff006e", "#00ff88", "#ffd60a",
            "#a78bfa", "#fb923c", "#34d399", "#f472b6">>

DefaultCursor == "{line:1,column:0}"

\* the User object built by create-room and join-room
NewUser(c, username, color) ==
  [id |-> c, username |-> Or(username, "Anonymous"), color |-> color,
   cursorPosition |-> DefaultCursor, selection |-> Null, joinedAt |-> now]

(* ------------------------------ socket.io ------------------------------ *)
\* sockets in the broadcast group of roomId
Group(roomId) == {c \in connected : roomId \in subs[c]}
\* faulty variant: io.to(roomId) used where socket.to(roomId) is meant
SocketToAll(c, roomId) == Group(roomId)
\* socket.to(roomId): the group without the sending socket
SocketTo(c, roomId) == Group(roomId) \ {c}
\* io.to(roomId): the whole group
IoTo(roomId) == Group(roomId)

NoEvent == [ev |-> "none"]

\* no file and no output yet
NoFile == <<>>
NoOutput == <<>>
\* a request that has not been sent
NewRequest ==
  [phase |-> "new", conn |-> 0, code |-> Undefined, language |-> Undefined,
   path |-> NoFile,
   ran |-> NoFile, outcome |-> "none", responses |-> <<>>]

\* the execution service before any request, for the clients S: the
\* temporary directory is empty, every output panel shows nothing
InitExec(S) ==
  /\ files = <<>>
  /\ reqs = [q \in Reqs |-> NewRequest]
  /\ shown = [c \in S |-> NoOutput]
  /\ uuids = 0

\* the browser tabs that run the client
Tabs == {"A", "B"}

\* the socket each tab opened when it was loaded
FirstSocket(k) == IF k = "A" THEN 1 ELSE 2

\* the state of CollabRoom after its socket connected: useState and useRef
\* initial values, nothing sent and nothing received; `edited` tells that
\* the user of the tab has typed code or input, `acts` counts what the user
\* has done
NewTab(sid) ==
  [sid |-> sid, isConnected |-> TRUE, inRoom |-> FALSE, roomId |-> "",
   code |-> "", lastCodeRef |-> "", language |-> "javascript", input |-> "",
   edited |-> FALSE, acts |-> 0, outbox |-> <<>>, inbox |-> <<>>]

InitClients == [k \in Tabs |-> NewTab(FirstSocket(k))]

\* rooms = new Map(), no handler has run
Init ==
  /\ rooms = <<>>
  /\ subs = [c \in Conns |-> {}]
  /\ connected = Conns
  /\ now = 0
  /\ last = NoEvent
  /\ out = {}
  /\ gone = {}
  /\ InitExec(Conns)
  /\ clients = InitClients

\* uuidv4(): an identifier it has not returned before
uuidv4 == <<"uuid", uuids + 1>>

\* Map.set(k, v)
MapSet(m, k, v) == [x \in DOMAIN m \cup {k} |-> IF x = k THEN v ELSE m[x]]
\* Map.delete for each key of ks
MapDeleteAll(m, ks) == [x \in DOMAIN m \ ks |-> m[x]]
\* Map.size
Size(m) == Cardinality(DOMAIN m)

(* ----------------------------- create-room ----------------------------- *)
\* faulty variant: the id field is not the generated id
CreateRoomRecordFixedId(c, username, language, roomId, color) ==
  [id |-> "R1",
   code |-> getDefaultCode(language),
   language |-> Or(language, "javascript"),
   input |-> "",
   users |-> MapSet(<<>>, c, NewUser(c, username, color)),
   createdAt |-> now,
   lastActivity |-> now]

\* the room object create-room builds, its creator already added
CreateRoomRecord(c, username, language, roomId, color) ==
  [id |-> roomId,
   code |-> getDefaultCode(language),
   language |-> Or(language, "javascript"),
   input |-> "",
   users |-> MapSet(<<>>, c, NewUser(c, username, color)),
   createdAt |-> now,
   lastActivity |-> now]

\* faulty variant: room-created sent to the broadcast group of the id
CreateRoomEmitsToGroup(c, roomId, room) ==
  {[ev |-> "room-created", to |-> Group(roomId) \cup {c}, roomId |-> roomId,
    code |-> room.code, language |-> room.language, input |-> room.input,
    user |-> room.users[c], users |-> room.users]}

CreateRoomEmits(c, roomId, room) ==
  {[ev |-> "room-created", to |-> {c}, roomId |-> roomId,
    code |-> room.code, language |-> room.language, input |-> room.input,
    user |-> room.users[c], users |-> room.users]}

\* socket.on('create-room'); roomId is what generateRoomId() returned and
\* color what generateUserColor() returned
CreateRoomEffect(c, username, language, roomId, color) ==
  /\ c \in connected
  /\ LET room == CreateRoomRecord(c, username, language, roomId, color)
     IN /\ rooms' = MapSet(rooms, roomId, room)
        /\ subs' = [subs EXCEPT ![c] = @ \cup {roomId}]
        /\ out' = CreateRoomEmits(c, roomId, room)
  /\ last' = [ev |-> "create-room", conn |-> c, roomId |-> roomId,
              language |-> language]
  /\ gone' = gone \ {roomId}
  /\ UNCHANGED <<connected, now>>
  /\ UNCHANGED exec

\* the handler, the browser tabs left as they are
CreateRoom(c, username, language, roomId, color) ==
  /\ CreateRoomEffect(c, username, language, roomId, color)
  /\ UNCHANGED clients

(* ------------------------------ join-room ------------------------------ *)
\* faulty variant: the activity stamp is set back to the creation time
JoinRoomRecordOldStamp(room, c, username, color) ==
  [room EXCEPT !.users = MapSet(@, c, NewUser(c, username, color)),
               !.lastActivity = room.createdAt]

\* faulty variant: a socket that is already a user keeps its record
JoinRoomRecordKeepsUser(room, c, username, color) ==
  [room EXCEPT !.users = IF c \in DOMAIN @ THEN @
                         ELSE MapSet(@, c, NewUser(c, username, color)),
               !.lastActivity = now]

\* the room after join-room added the user
JoinRoomRecord(room, c, username, color) ==
  [room EXCEPT !.users = MapSet(@, c, NewUser(c, username, color)),
               !.lastActivity = now]

\* faulty variant: user-joined sent with io.to, the joiner included
JoinRoomEmitsToAll(c, roomId, room, group) ==
  {[ev |-> "room-joined", to |-> {c}, roomId |-> roomId,
    code |-> room.code, language |-> room.language, input |-> room.input,
    user |-> room.users[c], users |-> room.users],
   [ev |-> "user-joined", to |-> group,
    user |-> room.users[c], users |-> room.users]}

\* room is the room after the insertion, group the broadcast group after
\* socket.join
JoinRoomEmits(c, roomId, room, group) ==
  {[ev |-> "room-joined", to |-> {c}, roomId |-> roomId,
    code |-> room.code, language |-> room.language, input |-> room.input,
    user |-> room.users[c], users |-> room.users],
   [ev |-> "user-joined", to |-> group \ {c},
    user |-> room.users[c], users |-> room.users]}

\* faulty variant: room-error sent with io.emit, to every socket
RoomErrorToAll(c) ==
  {[ev |-> "room-error", to |-> connected, message |-> "Room not found"]}

RoomError(c) ==
  {[ev |-> "room-error", to |-> {c}, message |-> "Room not found"]}

\* faulty variant: the socket is not put into the broadcast group
SocketJoinSkipped(c, roomId) == subs

\* socket.join(roomId)
SocketJoin(c, roomId) == [subs EXCEPT ![c] = @ \cup {roomId}]

\* what the 'join-room' handler does to the server
JoinRoomEffect(c, roomId, username, color) ==
  /\ c \in connected
  /\ IF roomId \notin DOMAIN rooms
     THEN /\ out' = RoomError(c)
          /\ UNCHANGED <<rooms, subs>>
     ELSE LET room == JoinRoomRecord(rooms[roomId], c, username, color)
          IN /\ rooms' = [rooms EXCEPT ![roomId] = room]
             /\ subs' = SocketJoin(c, roomId)
             /\ out' = JoinRoomEmits(c, roomId, room, Group(roomId) \cup {c})
  /\ UNCHANGED <<connected, now, gone>>
  /\ UNCHANGED exec

\* socket.on('join-room')
JoinRoom(c, roomId, username, color) ==
  /\ JoinRoomEffect(c, roomId, username, color)
  /\ last' = [ev |-> "join-room", conn |-> c, roomId |-> roomId]
  /\ UNCHANGED clients

(* --------------------------- client: joinRoom -------------------------- *)
\* faulty variant: the id is sent as typed
toUpperCaseAsTyped(str) == str

\* String.prototype.toUpperCase on the ids a user can type
toUpperCase(str) ==
  IF str = "r1" THEN "R1"
  ELSE IF str = "zzz999" THEN "ZZZ999"
  ELSE str

\* joinRoom of the client for the room id typed into the form, and the
\* server's handling of the join-room it emits; last.typed is the id typed
joinRoom(c, typed, username, color) ==
  /\ Truthy(username) /\ Truthy(typed)
  /\ JoinRoomEffect(c, toUpperCase(typed), username, color)
  /\ last' = [ev |-> "join-room", conn |-> c,
              roomId |-> toUpperCase(typed), typed |-> typed]
  /\ UNCHANGED clients

(* ----------------------------- code-change ----------------------------- *)
\* faulty variant: the code is written only when the sender is a user of the room
CodeChangeRecordMembersOnly(room, c, code, cursorPosition) ==
  IF c \in DOMAIN room.users
  THEN [room EXCEPT
          !.code = code,
          !.lastActivity = now,
          !.users = IF Truthy(cursorPosition)
                    THEN [@ EXCEPT ![c].cursorPosition = cursorPosition]
                    ELSE @]
  ELSE room

\* the room after code-change
CodeChangeRecord(room, c, code, cursorPosition) ==
  [room EXCEPT
     !.code = code,
     !.lastActivity = now,
     !.users = IF c \in DOMAIN room.users /\ Truthy(cursorPosition)
               THEN [@ EXCEPT ![c].cursorPosition = cursorPosition]
               ELSE @]

\* user?.username
UsernameOf(room, c) ==
  IF c \in DOMAIN room.users THEN room.users[c].username ELSE Undefined
\* user?.color
ColorOf(room, c) ==
  IF c \in DOMAIN room.users THEN room.users[c].color ELSE Undefined

CodeChangeEmits(c, roomId, room, code, cursorPosition) ==
  {[ev |-> "code-update", to |-> SocketTo(c, roomId),
    code |-> code, userId |-> c, username |-> UsernameOf(room, c),
    cursorPosition |-> cursorPosition, timestamp |-> now]}

\* socket.on('code-change'); last.replaced is the code the handler overwrote
CodeChangeEffect(c, roomId, code, cursorPosition) ==
  /\ c \in connected
  /\ IF roomId \notin DOMAIN rooms
     THEN /\ out' = {}
          /\ last' = [ev |-> "code-change", conn |-> c, roomId |-> roomId,
                      code |-> code, replaced |-> Undefined]
          /\ UNCHANGED rooms
     ELSE /\ rooms' = [rooms EXCEPT ![roomId] =
                         CodeChangeRecord(@, c, code, cursorPosition)]
          /\ out' = CodeChangeEmits(c, roomId, rooms[roomId], code,
                                    cursorPosition)
          /\ last' = [ev |-> "code-change", conn |-> c, roomId |-> roomId,
                      code |-> code, replaced |-> rooms[roomId].code]
  /\ UNCHANGED <<subs, connected, now, gone>>
  /\ UNCHANGED exec

\* the handler, the browser tabs left as they are
CodeChange(c, roomId, code, cursorPosition) ==
  /\ CodeChangeEffect(c, roomId, code, cursorPosition)
  /\ UNCHANGED clients

(* --------------------------- language-change --------------------------- *)
LanguageChangeRecord(room, language) ==
  [room EXCEPT !.language = language,
               !.code = getDefaultCode(language),
               !.lastActivity = now]

\* faulty variant: language-update sent with socket.to, the sender left out
LanguageChangeEmitsToOthers(c, roomId, room, language) ==
  {[ev |-> "language-update", to |-> SocketTo(c, roomId),
    language |-> language, code |-> room.code]}

\* room is the room after the change
LanguageChangeEmits(c, roomId, room, language) ==
  {[ev |-> "language-update", to |-> IoTo(roomId),
    language |-> language, code |-> room.code]}

\* socket.on('language-change')
LanguageChangeEffect(c, roomId, language) ==
  /\ c \in connected
  /\ last' = [ev |-> "language-change", conn |-> c, roomId |-> roomId,
              language |-> language]
  /\ IF roomId \notin DOMAIN rooms
     THEN /\ out' = {}
          /\ UNCHANGED rooms
     ELSE LET room == LanguageChangeRecord(rooms[roomId], language)
          IN /\ rooms' = [rooms EXCEPT ![roomId] = room]
             /\ out' = LanguageChangeEmits(c, roomId, room, language)
  /\ UNCHANGED <<subs, connected, now, gone>>
  /\ UNCHANGED exec

\* the handler, the browser tabs left as they are
LanguageChange(c, roomId, language) ==
  /\ LanguageChangeEffect(c, roomId, language)
  /\ UNCHANGED clients

(* ----------------------------- input-change ---------------------------- *)
InputChangeRecord(room, input) ==
  [room EXCEPT !.input = input, !.lastActivity = now]

\* faulty variant: input-update sent with io.to, the sender included
InputChangeEmitsToAll(c, roomId, input) ==
  {[ev |-> "input-update", to |-> IoTo(roomId), input |-> input]}

InputChangeEmits(c, roomId, input) ==
  {[ev |-> "input-update", to |-> SocketTo(c, roomId), input |-> input]}

\* socket.on('input-change'); last.replaced is the input the handler
\* overwrote
InputChangeEffect(c, roomId, input) ==
  /\ c \in connected
  /\ last' = [ev |-> "input-change", conn |-> c, roomId |-> roomId,
              input |-> input,
              replaced |-> IF roomId \in DOMAIN rooms
                           THEN rooms[roomId].input ELSE Undefined]
  /\ IF roomId \notin DOMAIN rooms
     THEN /\ out' = {}
          /\ UNCHANGED rooms
     ELSE /\ rooms' = [rooms EXCEPT ![roomId] = InputChangeRecord(@, input)]
          /\ out' = InputChangeEmits(c, roomId, input)
  /\ UNCHANGED <<subs, connected, now, gone>>
  /\ UNCHANGED exec

\* the handler, the browser tabs left as they are
InputChange(c, roomId, input) ==
  /\ InputChangeEffect(c, roomId, input)
  /\ UNCHANGED clients

(* ----------------------------- cursor-move ----------------------------- *)
\* faulty variant: no if (user) test, a sender that is not a member gets a
\* record holding the position
CursorMoveRecordNoUserTest(room, c, position) ==
  [room EXCEPT
     !.users = IF c \in DOMAIN room.users
               THEN [@ EXCEPT ![c].cursorPosition = position]
               ELSE MapSet(@, c, [cursorPosition |-> position])]

\* the room after cursor-move: if (user) user.cursorPosition = position
CursorMoveRecord(room, c, position) ==
  [room EXCEPT
     !.users = IF c \in DOMAIN room.users
               THEN [@ EXCEPT ![c].cursorPosition = position]
               ELSE @]

CursorMoveEmits(c, roomId, room, position) ==
  {[ev |-> "cursor-update", to |-> SocketTo(c, roomId),
    userId |-> c, username |-> UsernameOf(room, c),
    color |-> ColorOf(room, c), position |-> position]}

\* socket.on('cursor-move')
CursorMove(c, roomId, position) ==
  /\ c \in connected
  /\ IF roomId \notin DOMAIN rooms
     THEN /\ out' = {}
          /\ UNCHANGED rooms
     ELSE /\ rooms' = [rooms EXCEPT ![roomId] =
                         CursorMoveRecord(@, c, position)]
          /\ out' = CursorMoveEmits(c, roomId, rooms[roomId], position)
  /\ last' = [ev |-> "cursor-move", conn |-> c, roomId |-> roomId,
              position |-> position]
  /\ UNCHANGED <<subs, connected, now, gone>>
  /\ UNCHANGED <<exec, clients>>

(* --------------------------- selection-change -------------------------- *)
\* the room after selection-change: if (user) user.selection = selection
SelectionChangeRecord(room, c, selection) ==
  [room EXCEPT
     !.users = IF c \in DOMAIN room.users
               THEN [@ EXCEPT ![c].selection = selection]
               ELSE @]

SelectionChangeEmits(c, roomId, room, selection) ==
  {[ev |-> "selection-update", to |-> SocketTo(c, roomId),
    userId |-> c, username |-> UsernameOf(room, c),
    color |-> ColorOf(room, c), selection |-> selection]}

\* socket.on('selection-change')
SelectionChange(c, roomId, selection) ==
  /\ c \in connected
  /\ IF roomId \notin DOMAIN rooms
     THEN /\ out' = {}
          /\ UNCHANGED rooms
     ELSE /\ rooms' = [rooms EXCEPT ![roomId] =
                         SelectionChangeRecord(@, c, selection)]
          /\ out' = SelectionChangeEmits(c, roomId, rooms[roomId], selection)
  /\ last' = [ev |-> "selection-change", conn |-> c, roomId |-> roomId,
              selection |-> selection]
  /\ UNCHANGED <<subs, connected, now, gone>>
  /\ UNCHANGED <<exec, clients>>

(* ----------------------------- chat-message ---------------------------- *)
\* faulty variant: chat-message sent with socket.to, the sender left out
ChatMessageEmitsToOthers(c, roomId, room, message, id) ==
  {[ev |-> "chat-message", to |-> SocketTo(c, roomId),
    id |-> id, userId |-> c,
    username |-> Or(UsernameOf(room, c), "Anonymous"),
    color |-> ColorOf(room, c), message |-> message, timestamp |-> now]}

\* the chatMessage object; id is the value uuidv4() returned
ChatMessageEmits(c, roomId, room, message, id) ==
  {[ev |-> "chat-message", to |-> IoTo(roomId),
    id |-> id, userId |-> c,
    username |-> Or(UsernameOf(room, c), "Anonymous"),
    color |-> ColorOf(room, c), message |-> message, timestamp |-> now]}

\* socket.on('chat-message'): nothing is stored
ChatMessage(c, roomId, message) ==
  /\ c \in connected
  /\ IF roomId \notin DOMAIN rooms
     THEN /\ out' = {}
          /\ UNCHANGED uuids
     ELSE /\ uuids < MaxUuids
          /\ out' = ChatMessageEmits(c, roomId, rooms[roomId], message,
                                     uuidv4)
          /\ uuids' = uuids + 1
  /\ last' = [ev |-> "chat-message", conn |-> c, roomId |-> roomId,
              message |-> message]
  /\ UNCHANGED <<rooms, subs, connected, now, gone>>
  /\ UNCHANGED <<files, reqs, shown, clients>>

(* -------------------------------- typing ------------------------------- *)
TypingEmits(c, roomId, room, isTyping) ==
  {[ev |-> "user-typing", to |-> SocketTo(c, roomId),
    userId |-> c, username |-> UsernameOf(room, c), isTyping |-> isTyping]}

\* faulty variant: the typing flag is kept in the sender's user record
TypingKeepsFlag(c, roomId, isTyping) ==
  /\ c \in connected
  /\ IF roomId \notin DOMAIN rooms
     THEN out' = {} /\ UNCHANGED rooms
     ELSE /\ out' = TypingEmits(c, roomId, rooms[roomId], isTyping)
          /\ rooms' = IF c \in DOMAIN rooms[roomId].users
                      THEN [rooms EXCEPT ![roomId].users[c] =
                              [f \in DOMAIN @ \cup {"isTyping"} |->
                                 IF f = "isTyping" THEN isTyping ELSE @[f]]]
                      ELSE rooms
  /\ last' = [ev |-> "typing", conn |-> c, roomId |-> roomId,
              isTyping |-> isTyping]
  /\ UNCHANGED <<subs, connected, now, gone>>
  /\ UNCHANGED <<exec, clients>>

\* socket.on('typing'): nothing is stored
Typing(c, roomId, isTyping) ==
  /\ c \in connected
  /\ out' = IF roomId \notin DOMAIN rooms THEN {}
            ELSE TypingEmits(c, roomId, rooms[roomId], isTyping)
  /\ last' = [ev |-> "typing", conn |-> c, roomId |-> roomId,
              isTyping |-> isTyping]
  /\ UNCHANGED <<rooms, subs, connected, now, gone>>
  /\ UNCHANGED <<exec, clients>>

(* ------------------------- event without payload ---------------------- *)
\* the events whose listener destructures its first argument
PayloadEvents ==
  {"create-room", "join-room", "code-change", "cursor-move",
   "selection-change", "language-change", "input-change", "chat-message",
   "typing"}

\* an event sent with no argument: destructuring undefined throws a
\* TypeError before the first statement of the listener; nothing catches
\* it, so the server process ends, with it the registry and every socket
EventWithoutPayload(c, ev) ==
  /\ c \in connected
  /\ rooms' = <<>>
  /\ subs' = [d \in Conns |-> {}]
  /\ connected' = {}
  /\ out' = {}
  /\ last' = [ev |-> ev, conn |-> c, error |-> "TypeError"]
  /\ UNCHANGED <<now, gone>>
  /\ UNCHANGED <<exec, clients>>

(* ------------------------------ disconnect ----------------------------- *)
\* the rooms the disconnect loop finds the socket in
RoomsOf(c) == {r \in DOMAIN rooms : c \in DOMAIN rooms[r].users}
\* the rooms whose only user is the socket
SoleRooms(c) == {r \in DOMAIN rooms : DOMAIN rooms[r].users = {c}}

\* faulty variant: the loop deletes the user and never the room
DisconnectRoomsKeepEmpty(c) ==
  [r \in DOMAIN rooms |->
     IF r \in RoomsOf(c)
     THEN [rooms[r] EXCEPT !.users = MapDeleteAll(@, {c})]
     ELSE rooms[r]]

\* faulty variant: the loop stops at the first room that has the socket
DisconnectRoomsFirstOnly(c) ==
  IF RoomsOf(c) = {} THEN rooms
  ELSE LET r == CHOOSE x \in RoomsOf(c) : TRUE
           users == MapDeleteAll(rooms[r].users, {c})
       IN IF Size(users) = 0
          THEN MapDeleteAll(rooms, {r})
          ELSE [rooms EXCEPT ![r].users = users]

\* the registry after the disconnect loop: the user is deleted from every
\* room that has it, and a room left with users.size === 0 is deleted
DisconnectRooms(c) ==
  LET left == [r \in DOMAIN rooms |->
                 IF r \in RoomsOf(c)
                 THEN [rooms[r] EXCEPT !.users = MapDeleteAll(@, {c})]
                 ELSE rooms[r]]
  IN MapDeleteAll(left, {r \in RoomsOf(c) : Size(left[r].users) = 0})

\* faulty variant: user-left built before the user is deleted, so the list
\* still holds the departing user
DisconnectEmitsStaleList(c) ==
  {[ev |-> "user-left", to |-> SocketTo(c, r), roomId |-> r,
    userId |-> c, username |-> rooms[r].users[c].username,
    users |-> rooms[r].users] : r \in RoomsOf(c)}

\* faulty variant: no room.users.has(socket.id) test, user-left is sent for
\* every room of the registry
DisconnectEmitsNoHasTest(c) ==
  {[ev |-> "user-left", to |-> SocketTo(c, r), roomId |-> r,
    userId |-> c, username |-> UsernameOf(rooms[r], c),
    users |-> MapDeleteAll(rooms[r].users, {c})] : r \in DOMAIN rooms}

DisconnectEmits(c) ==
  {[ev |-> "user-left", to |-> SocketTo(c, r), roomId |-> r,
    userId |-> c, username |-> rooms[r].users[c].username,
    users |-> MapDeleteAll(rooms[r].users, {c})] : r \in RoomsOf(c)}

\* socket.on('disconnect'); socket.io has already taken the socket out of
\* every broadcast group when the handler runs
DisconnectEffect(c) ==
  /\ c \in connected
  /\ connected' = connected \ {c}
  /\ subs' = [subs EXCEPT ![c] = {}]
  /\ rooms' = DisconnectRooms(c)
  /\ out' = DisconnectEmits(c)
  /\ last' = [ev |-> "disconnect", conn |-> c]
  /\ gone' = gone \cup SoleRooms(c)
  /\ UNCHANGED now
  /\ UNCHANGED exec

\* the handler, the browser tabs left as they are
Disconnect(c) ==
  /\ DisconnectEffect(c)
  /\ UNCHANGED clients

\* the 'disconnect' handler run a second time for a socket that is closed
DisconnectAgain(c) ==
  /\ c \notin connected
  /\ subs' = [subs EXCEPT ![c] = {}]
  /\ rooms' = DisconnectRooms(c)
  /\ out' = DisconnectEmits(c)
  /\ last' = [ev |-> "disconnect", conn |-> c, delivery |-> "second"]
  /\ gone' = gone \cup SoleRooms(c)
  /\ UNCHANGED <<connected, now>>
  /\ UNCHANGED <<exec, clients>>

(* ----------------------------- idle cleanup ---------------------------- *)
\* 24 * 60 * 60 * 1000 ms; the clock counts in units of 24 hours
TWENTY_FOUR_HOURS == 1

\* faulty variant: a room idle for exactly the threshold is deleted too
InactiveAtThreshold == {r \in DOMAIN rooms :
                          now - rooms[r].lastActivity >= TWENTY_FOUR_HOURS}

\* the rooms cleanupInactiveRooms deletes
Inactive == {r \in DOMAIN rooms :
               now - rooms[r].lastActivity > TWENTY_FOUR_HOURS}

\* cleanupInactiveRooms, run by setInterval; last.removed is what it deleted
cleanupInactiveRooms ==
  /\ rooms' = MapDeleteAll(rooms, Inactive)
  /\ last' = [ev |-> "cleanup", removed |-> Inactive]
  /\ out' = {}
  /\ UNCHANGED <<subs, connected, now, gone>>
  /\ UNCHANGED <<exec, clients>>

\* Date.now() has advanced by d when the next handler runs
Tick(d) ==
  /\ now + d <= MaxTime
  /\ now' = now + d
  /\ UNCHANGED <<rooms, subs, connected, last, out, gone>>
  /\ UNCHANGED <<exec, clients>>

(* ------------------------------- ping ---------------------------------- *)
\* faulty variant: pong sent with io.emit, to every socket
PingEmitsToAll(c, timestamp) ==
  {[ev |-> "pong", to |-> connected,
    clientTimestamp |-> timestamp, serverTimestamp |-> now]}

PingEmits(c, timestamp) ==
  {[ev |-> "pong", to |-> {c},
    clientTimestamp |-> timestamp, serverTimestamp |-> now]}

\* socket.on('ping')
Ping(c, timestamp) ==
  /\ c \in connected
  /\ out' = PingEmits(c, timestamp)
  /\ last' = [ev |-> "ping", conn |-> c, timestamp |-> timestamp]
  /\ UNCHANGED <<rooms, subs, connected, now, gone>>
  /\ UNCHANGED <<exec, clients>>

(* ----------------------------- /api/execute ---------------------------- *)
\* languageConfig[language].extension
extension ==
  [javascript |-> ".js", python |-> ".py", java |-> ".java",
   cpp |-> ".cpp", c |-> ".c"]

\* languageConfig[language] is truthy: own key or inherited property
HasConfig(language) ==
  language \in DOMAIN extension \cup ObjectPrototypeKeys

\* path.join(TEMP_DIR, fileName) as <<name, extension>>: java sources are
\* always Main.java, the others are named by uuidv4()
FilePath(language) ==
  IF language = "java" THEN <<<<"Main">>, ".java">>
  ELSE IF language \in DOMAIN extension THEN <<uuidv4, extension[language]>>
  ELSE <<uuidv4, Undefined>>

\* the file the compiler writes next to the source; NoFile if none
Artifact(path, language) ==
  IF language = "java" THEN <<path[1], ".class">>
  ELSE IF language \in {"cpp", "c"} THEN <<path[1], "">>
  ELSE NoFile

\* res.status(status).json({success, output})
Respond(q, status, success, output) ==
  [reqs[q] EXCEPT !.phase = "done",
                  !.responses = Append(@, [status |-> status,
                                           success |-> success,
                                           output |-> output])]

\* app.post('/api/execute') up to the exec() call, for a request of client
\* c; the input only becomes part of the command line
Execute(q, c, code, language) ==
  /\ reqs[q].phase = "new"
  /\ IF ~ Truthy(code) \/ ~ Truthy(language) \/ ~ HasConfig(language)
     THEN /\ reqs' = [reqs EXCEPT ![q] =
                        [Respond(q, 400, FALSE, NoOutput) EXCEPT
                           !.conn = c, !.code = code,
                           !.language = language]]
          /\ UNCHANGED <<files, uuids>>
     ELSE LET path == FilePath(language)
          IN /\ language # "java" => uuids < MaxUuids
             /\ uuids' = IF language = "java" THEN uuids ELSE uuids + 1
             /\ files' = MapSet(files, path, <<"code", q>>)
             /\ reqs' = [reqs EXCEPT ![q] =
                           IF language \in ObjectPrototypeKeys
                           THEN \* config.command is not a function
                                [Respond(q, 500, FALSE, NoOutput) EXCEPT
                                   !.conn = c, !.code = code,
                                   !.language = language, !.path = path]
                           ELSE [@ EXCEPT !.phase = "running", !.conn = c,
                                          !.code = code,
                                          !.language = language,
                                          !.path = path]]
  /\ UNCHANGED <<clients, rooms, subs, connected, now, last, out, gone, shown>>

\* results of the child process
Outcomes == {"ok", "nonzero", "timeout"}

\* the child process of exec(): it compiles and runs whatever the source
\* path holds when it gets there, and fails if the file is not there
ExecProcess(q, outcome) ==
  /\ reqs[q].phase = "running"
  /\ LET path == reqs[q].path
         present == path \in DOMAIN files
         source == IF present THEN files[path] ELSE NoFile
         built == Artifact(path, reqs[q].language)
     IN /\ ~ present => outcome = "nonzero"
        /\ files' = IF present /\ built # NoFile
                    THEN MapSet(files, built, <<"built", source[2]>>)
                    ELSE files
        /\ reqs' = [reqs EXCEPT ![q].phase = "exited", ![q].ran = source,
                                ![q].outcome = outcome]
  /\ UNCHANGED <<clients, rooms, subs, connected, now, last, out, gone, shown,
                 uuids>>

\* the files the callback of exec() unlinks
CleanedUp(q) ==
  {reqs[q].path, Artifact(reqs[q].path, reqs[q].language)} \ {NoFile}

\* faulty variant: no return after the failure response, a second response
\* follows
ExecResponseTwice(q) ==
  IF reqs[q].outcome = "ok"
  THEN Respond(q, 200, TRUE, <<"stdout", reqs[q].ran>>)
  ELSE [Respond(q, 200, FALSE, <<"stderr", reqs[q].ran>>) EXCEPT
          !.responses = Append(@, [status |-> 200, success |-> TRUE,
                                   output |-> <<"stdout", reqs[q].ran>>])]

\* the response the callback of exec() sends
ExecResponse(q) ==
  IF reqs[q].outcome = "ok"
  THEN Respond(q, 200, TRUE, <<"stdout", reqs[q].ran>>)
  ELSE Respond(q, 200, FALSE, <<"stderr", reqs[q].ran>>)

\* the callback of exec(): clean up, then respond
ExecCallback(q) ==
  /\ reqs[q].phase = "exited"
  /\ files' = MapDeleteAll(files, CleanedUp(q))
  /\ reqs' = [reqs EXCEPT ![q] = ExecResponse(q)]
  /\ UNCHANGED <<clients, rooms, subs, connected, now, last, out, gone, shown,
                 uuids>>

\* runCode of the client after the response: setOutput
RunCodeResult(q) ==
  /\ reqs[q].phase = "done"
  /\ shown' = [shown EXCEPT ![reqs[q].conn] =
                 reqs[q].responses[1].output]
  /\ reqs' = [reqs EXCEPT ![q].phase = "shown"]
  /\ UNCHANGED <<clients, rooms, subs, connected, now, last, out, gone, files,
                 uuids>>

(* ----------------------------- input sets ------------------------------ *)
Codes == {"x=1", "y=2"}
\* room ids a client can name: the generated id and one never generated
NamedIds == {"R1", "ZZZ999"}
\* language values a client can send
LanguageValues == SupportedLanguages \cup {"ruby", "constructor", Undefined}

(* ----------------------------- browser tabs ---------------------------- *)
\* the state of the server's socket handlers
server == <<rooms, subs, connected, now, last, out, gone>>

\* the events whose client handler writes the state a tab keeps here
ClientEvents ==
  {"room-created", "room-joined", "code-update", "language-update",
   "input-update"}

\* the emit calls of the handler that has just run which reach socket sid
Arrivals(sid) == {m \in out' : sid \in m.to /\ m.ev \in ClientEvents}

\* the tabs cl once the transport has queued those emits for them; a
\* handler emits at most one of these events to one socket
Deliver(cl) ==
  [k \in Tabs |->
     IF cl[k].isConnected /\ Arrivals(cl[k].sid) # {}
     THEN [cl[k] EXCEPT
             !.inbox = Append(@, CHOOSE m \in Arrivals(cl[k].sid) : TRUE)]
     ELSE cl[k]]

\* an action of the user of tab k
UserActs(k) ==
  /\ clients[k].isConnected
  /\ clients[k].acts < MaxActs

\* socket.emit(ev, payload) of tab t
Emit(t, payload) == [t EXCEPT !.outbox = Append(@, payload)]

\* createRoom of the client
createRoom(k, username, language) ==
  /\ UserActs(k)
  /\ ~ clients[k].inRoom
  /\ Truthy(username)
  /\ clients' = [clients EXCEPT ![k] =
       [Emit(@, [ev |-> "create-room", username |-> username,
                 language |-> language]) EXCEPT !.acts = @ + 1]]
  /\ UNCHANGED <<server, exec>>

\* joinRoom of the client for the room id typed into the form
joinRoomTab(k, typed, username) ==
  /\ UserActs(k)
  /\ ~ clients[k].inRoom
  /\ Truthy(username) /\ Truthy(typed)
  /\ clients' = [clients EXCEPT ![k] =
       [Emit([@ EXCEPT !.roomId = toUpperCase(typed)],
             [ev |-> "join-room", roomId |-> toUpperCase(typed),
              username |-> username]) EXCEPT !.acts = @ + 1]]
  /\ UNCHANGED <<server, exec>>

\* handleCodeChange(value) of tab t, the editor's onChange
handleCodeChange(t, value) ==
  IF ~ t.inRoom THEN t
  ELSE IF value # t.lastCodeRef
       THEN Emit([t EXCEPT !.code = value, !.lastCodeRef = value],
                 [ev |-> "code-change", roomId |-> t.roomId, code |-> value,
                  cursorPosition |-> DefaultCursor])
       ELSE [t EXCEPT !.code = value]

\* the user of tab k types: the editor holds value afterwards
TypeCode(k, value) ==
  /\ UserActs(k)
  /\ clients[k].inRoom
  /\ value # clients[k].code
  /\ clients' = [clients EXCEPT ![k] =
       [handleCodeChange(@, value) EXCEPT !.acts = @ + 1, !.edited = TRUE]]
  /\ UNCHANGED <<server, exec>>

\* handleLanguageChange of the client
handleLanguageChange(k, newLang) ==
  /\ UserActs(k)
  /\ clients[k].inRoom
  /\ clients' = [clients EXCEPT ![k] =
       [Emit(@, [ev |-> "language-change", roomId |-> @.roomId,
                 language |-> newLang]) EXCEPT !.acts = @ + 1]]
  /\ UNCHANGED <<server, exec>>

\* handleInputChange of the client
handleInputChange(k, newInput) ==
  /\ UserActs(k)
  /\ clients[k].inRoom
  /\ clients' = [clients EXCEPT ![k] =
       [Emit([@ EXCEPT !.input = newInput],
             [ev |-> "input-change", roomId |-> @.roomId,
              input |-> newInput])
        EXCEPT !.acts = @ + 1, !.edited = TRUE]]
  /\ UNCHANGED <<server, exec>>

\* the message of tab k the server handles next
Sent(k, ev) ==
  /\ clients[k].isConnected
  /\ clients[k].outbox # <<>>
  /\ Head(clients[k].outbox).ev = ev

\* the tabs after the server took the message of tab k and emitted
Taken(k) == Deliver([clients EXCEPT ![k].outbox = Tail(@)])

\* the server handles the create-room of tab k
ReceiveCreateRoom(k, roomId, color) ==
  /\ Sent(k, "create-room")
  /\ LET m == Head(clients[k].outbox)
     IN CreateRoomEffect(clients[k].sid, m.username, m.language, roomId,
                         color)
  /\ clients' = Taken(k)

\* the server handles the join-room of tab k
ReceiveJoinRoom(k, color) ==
  /\ Sent(k, "join-room")
  /\ LET m == Head(clients[k].outbox)
     IN /\ JoinRoomEffect(clients[k].sid, m.roomId, m.username, color)
        /\ last' = [ev |-> "join-room", conn |-> clients[k].sid,
                    roomId |-> m.roomId]
  /\ clients' = Taken(k)

\* the server handles the code-change of tab k
ReceiveCodeChange(k) ==
  /\ Sent(k, "code-change")
  /\ LET m == Head(clients[k].outbox)
     IN CodeChangeEffect(clients[k].sid, m.roomId, m.code, m.cursorPosition)
  /\ clients' = Taken(k)

\* the server handles the language-change of tab k
ReceiveLanguageChange(k) ==
  /\ Sent(k, "language-change")
  /\ LET m == Head(clients[k].outbox)
     IN LanguageChangeEffect(clients[k].sid, m.roomId, m.language)
  /\ clients' = Taken(k)

\* the server handles the input-change of tab k
ReceiveInputChange(k) ==
  /\ Sent(k, "input-change")
  /\ LET m == Head(clients[k].outbox)
     IN InputChangeEffect(clients[k].sid, m.roomId, m.input)
  /\ clients' = Taken(k)

\* socket.on('room-created') and socket.on('room-joined') of the client
RoomEntered(t, data) ==
  [t EXCEPT !.roomId = data.roomId, !.code = data.code,
            !.language = data.language, !.input = Or(data.input, ""),
            !.inRoom = TRUE, !.lastCodeRef = data.code]

\* faulty variant: lastCodeRef is left as it was
CodeUpdateKeepsRef(t, data) == [t EXCEPT !.code = data.code]

\* socket.on('code-update') of the client
CodeUpdate(t, data) ==
  [t EXCEPT !.code = data.code, !.lastCodeRef = data.code]

\* socket.on('language-update') of the client
LanguageUpdate(t, data) ==
  [t EXCEPT !.language = data.language, !.code = data.code,
            !.lastCodeRef = data.code]

\* socket.on('input-update') of the client
InputUpdate(t, data) == [t EXCEPT !.input = data.input]

\* the client handler registered for the event of data
Handle(t, data) ==
  CASE data.ev \in {"room-created", "room-joined"} -> RoomEntered(t, data)
    [] data.ev = "code-update" -> CodeUpdate(t, data)
    [] data.ev = "language-update" -> LanguageUpdate(t, data)
    [] data.ev = "input-update" -> InputUpdate(t, data)

\* tab k receives the next message: its handler runs, and the editor, whose
\* value prop changed, may call onChange with the value it was given
ClientReceive(k, ev, onChange) ==
  /\ clients[k].isConnected
  /\ clients[k].inbox # <<>>
  /\ Head(clients[k].inbox).ev = ev
  /\ LET data == Head(clients[k].inbox)
         t == Handle([clients[k] EXCEPT !.inbox = Tail(@)], data)
     IN clients' = [clients EXCEPT ![k] =
          IF onChange /\ ev # "input-update"
          THEN handleCodeChange(t, t.code) ELSE t]
  /\ UNCHANGED <<server, exec>>

\* the transport of tab k drops: the server runs the disconnect handler for
\* its socket, what was on the way to the tab is lost, and the tab shows
\* 'Disconnected' (setIsConnected(false)) and nothing else changes
Drop(k) ==
  /\ clients[k].isConnected
  /\ DisconnectEffect(clients[k].sid)
  /\ clients' = [clients EXCEPT ![k].isConnected = FALSE,
                                ![k].inbox = <<>>]

\* the sockets no tab has used
Unused == {c \in connected : \A k \in Tabs : clients[k].sid # c}

\* socket.io reconnects tab k: a new socket with a new id, 'connect' runs
\* setIsConnected(true)
Reconnect(k, sid) ==
  /\ ~ clients[k].isConnected
  /\ sid \in Unused
  /\ clients' = [clients EXCEPT ![k].isConnected = TRUE, ![k].sid = sid]
  /\ UNCHANGED <<server, exec>>

(* -------------------------------- Spec --------------------------------- *)
\* The room lifecycle, the code and language writes, the idle cleanup and
\* the clock; generateRoomId has one id to return and every payload field
\* one value.
Next ==
  \/ \E c \in Conns : CreateRoom(c, "ann", "python", "R1", colors[1])
  \/ \E c \in Conns : JoinRoom(c, "R1", "ann", colors[1])
  \/ \E c \in Conns : CodeChange(c, "R1", "x=1", Null)
  \/ \E c \in Conns : LanguageChange(c, "R1", "python")
  \/ \E c \in Conns : Disconnect(c)
  \/ cleanupInactiveRooms
  \/ Tick(1)

Spec == Init /\ [][Next]_vars

(* ------------------------------ SpecSync ------------------------------- *)
\* The handlers that write and read the shared buffers, with two code
\* payloads and room ids that name no room; no clock.
NextSync ==
  \/ \E c \in Conns, l \in {"python", Undefined} :
       CreateRoom(c, "ann", l, "R1", colors[1])
  \/ \E c \in Conns, r \in NamedIds :
       JoinRoom(c, r, "ann", colors[1])
  \/ \E c \in Conns, r \in NamedIds, code \in Codes :
       CodeChange(c, r, code, Null)
  \/ \E c \in Conns, r \in NamedIds :
       LanguageChange(c, r, "python")
  \/ \E c \in Conns, r \in NamedIds :
       InputChange(c, r, "42")
  \/ \E c \in Conns : Disconnect(c)

SpecSync == Init /\ [][NextSync]_vars

(* ------------------------------ SpecRooms ------------------------------ *)
\* Room lifecycle when generateRoomId has two ids to return; no clock.
NextRooms ==
  \/ \E c \in Conns, r \in RoomIds :
       CreateRoom(c, "ann", "javascript", r, colors[1])
  \/ \E c \in Conns, r \in RoomIds :
       JoinRoom(c, r, "ann", colors[1])
  \/ \E c \in Conns : Disconnect(c)

SpecRooms == Init /\ [][NextRooms]_vars

(* ---------------------------- SpecRedeliver ---------------------------- *)
\* SpecRooms with the disconnect notification of a closed socket delivered
\* again.
NextRedeliver ==
  \/ \E c \in Conns, r \in RoomIds :
       CreateRoom(c, "ann", "javascript", r, colors[1])
  \/ \E c \in Conns, r \in RoomIds :
       JoinRoom(c, r, "ann", colors[1])
  \/ \E c \in Conns : Disconnect(c)
  \/ \E c \in Conns : DisconnectAgain(c)

SpecRedeliver == Init /\ [][NextRedeliver]_vars

(* ------------------------------ SpecEvents ----------------------------- *)
\* Every room event of the protocol with one value per field, each naming
\* either the live room or an id that names no room; no clock.
NewPosition == "{line:2,column:3}"
NewSelection == "{start:1,end:4}"

NextEvents ==
  \/ \E c \in Conns : CreateRoom(c, "ann", "javascript", "R1", colors[1])
  \/ \E c \in Conns, r \in NamedIds : JoinRoom(c, r, "ann", colors[1])
  \/ \E c \in Conns, r \in NamedIds : CodeChange(c, r, "x=1", Null)
  \/ \E c \in Conns, r \in NamedIds : CursorMove(c, r, NewPosition)
  \/ \E c \in Conns, r \in NamedIds : SelectionChange(c, r, NewSelection)
  \/ \E c \in Conns, r \in NamedIds : LanguageChange(c, r, "javascript")
  \/ \E c \in Conns, r \in NamedIds : InputChange(c, r, "42")
  \/ \E c \in Conns, r \in NamedIds : ChatMessage(c, r, "hi")
  \/ \E c \in Conns, r \in NamedIds : Typing(c, r, TRUE)
  \/ \E c \in Conns : Disconnect(c)

SpecEvents == Init /\ [][NextEvents]_vars

(* ----------------------------- SpecPresence ---------------------------- *)
\* The clock with the events that touch a user but not the buffers.
NextPresence ==
  \/ \E c \in Conns : CreateRoom(c, "ann", "javascript", "R1", colors[1])
  \/ \E c \in Conns : JoinRoom(c, "R1", "ann", colors[1])
  \/ \E c \in Conns : CursorMove(c, "R1", NewPosition)
  \/ \E c \in Conns : SelectionChange(c, "R1", NewSelection)
  \/ \E c \in Conns : Disconnect(c)
  \/ Tick(1)

SpecPresence == Init /\ [][NextPresence]_vars

(* ------------------------------ SpecSweep ------------------------------ *)
\* Two rooms, the clock and the idle cleanup; rooms are created at
\* different times, nobody joins or disconnects.
NextSweep ==
  \/ \E c \in Conns, r \in RoomIds :
       CreateRoom(c, "ann", "javascript", r, colors[1])
  \/ cleanupInactiveRooms
  \/ Tick(1)

SpecSweep == Init /\ [][NextSweep]_vars

(* ----------------------------- SpecPayload ----------------------------- *)
\* Payloads with a field left out, and events with no payload at all.
NextPayload ==
  \/ \E c \in Conns : CreateRoom(c, "ann", "javascript", "R1", colors[1])
  \/ \E c \in Conns : JoinRoom(c, "R1", "ann", colors[1])
  \/ \E c \in Conns, code \in {"x=1", Undefined} :
       CodeChange(c, "R1", code, Undefined)
  \/ \E c \in Conns, input \in {"42", Undefined} :
       InputChange(c, "R1", input)
  \/ \E c \in Conns, l \in {"javascript", Undefined} :
       LanguageChange(c, "R1", l)
  \/ \E c \in Conns, position \in {NewPosition, Undefined} :
       CursorMove(c, "R1", position)
  \/ \E c \in Conns, ev \in PayloadEvents : EventWithoutPayload(c, ev)
  \/ \E c \in Conns : Disconnect(c)

SpecPayload == Init /\ [][NextPayload]_vars

(* ------------------------------ SpecCrowd ------------------------------ *)
\* "Max Users per Room: 10 users" of the README's performance table
MaxUsersPerRoom == 10
\* one socket more than a room is documented to hold
Crowd == 1..(MaxUsersPerRoom + 1)

\* the server with the sockets of Crowd connected
InitCrowd ==
  /\ rooms = <<>>
  /\ subs = [c \in Crowd |-> {}]
  /\ connected = Crowd
  /\ now = 0
  /\ last = NoEvent
  /\ out = {}
  /\ gone = {}
  /\ InitExec(Crowd)
  /\ clients = InitClients

\* socket 1 creates the room, the others join it
NextCrowd ==
  \/ CreateRoom(1, "ann", "javascript", "R1", colors[1])
  \/ \E c \in Crowd \ {1} : JoinRoom(c, "R1", "ann", colors[1])

SpecCrowd == InitCrowd /\ [][NextCrowd]_vars

(* ------------------------------- SpecExec ------------------------------ *)
\* The execution service alone: requests of any client in any language.
ExecLanguages == {"java", "python", "cpp", "constructor", Undefined}
\* request bodies <<code, language>>
ExecBodies == {<<"main()", l>> : l \in ExecLanguages} \cup {<<"", "python">>}

NextExec ==
  \/ \E q \in Reqs, body \in ExecBodies : Execute(q, 1, body[1], body[2])
  \/ \E q \in Reqs, o \in Outcomes : ExecProcess(q, o)
  \/ \E q \in Reqs : ExecCallback(q)
  \/ \E q \in Reqs : RunCodeResult(q)

\* every started child process exits or is killed after 5 seconds, and the
\* callback and the client's continuation then run
FairExec ==
  \A q \in Reqs :
    /\ WF_vars(\E o \in Outcomes : ExecProcess(q, o))
    /\ WF_vars(ExecCallback(q))
    /\ WF_vars(RunCodeResult(q))

SpecExec == Init /\ [][NextExec]_vars /\ FairExec

(* ------------------------------- SpecRun ------------------------------- *)
\* Members of one room press Run: the room events that build the room, and
\* the execution service with programs that end normally or fail.
NextRun ==
  \/ CreateRoom(1, "ann", "python", "R1", colors[1])
  \/ \E c \in Conns : JoinRoom(c, "R1", "bob", colors[2])
  \/ \E q \in Reqs, c \in Conns : Execute(q, c, "main()", "python")
  \/ \E q \in Reqs, o \in {"ok", "nonzero"} : ExecProcess(q, o)
  \/ \E q \in Reqs : ExecCallback(q)
  \/ \E q \in Reqs : RunCodeResult(q)

SpecRun == Init /\ [][NextRun]_vars /\ FairExec

(* ------------------------------- SpecChat ------------------------------ *)
\* One room with chat, typing and ping, sent by members and by others.
PingTimestamps == {"1730000000000", Undefined}

NextChat ==
  \/ \E c \in Conns : CreateRoom(c, "ann", "javascript", "R1", colors[1])
  \/ \E c \in Conns : JoinRoom(c, "R1", "bob", colors[2])
  \/ \E c \in Conns : ChatMessage(c, "R1", "hi")
  \/ \E c \in Conns : Typing(c, "R1", TRUE)
  \/ \E c \in Conns, t \in PingTimestamps : Ping(c, t)
  \/ \E c \in Conns : Disconnect(c)

SpecChat == Init /\ [][NextChat]_vars

(* ------------------------------- SpecJoin ------------------------------ *)
\* Joins by the client's form and by join-room events sent as they are,
\* with room ids in upper and in lower case.
TypedIds == {"R1", "r1", "zzz999"}

NextJoin ==
  \/ \E c \in Conns : CreateRoom(c, "ann", "javascript", "R1", colors[1])
  \/ \E c \in Conns, r \in TypedIds : JoinRoom(c, r, "bob", colors[2])
  \/ \E c \in Conns, t \in TypedIds : joinRoom(c, t, "bob", colors[2])
  \/ \E c \in Conns : Disconnect(c)

SpecJoin == Init /\ [][NextJoin]_vars

(* ------------------------------ SpecCursor ----------------------------- *)
\* Two rooms, both created by socket 1; cursor and selection events for
\* the first one, from its members and from the other sockets.
NextCursor ==
  \/ \E r \in RoomIds : CreateRoom(1, "ann", "javascript", r, colors[1])
  \/ \E c \in Conns : JoinRoom(c, "R1", "bob", colors[2])
  \/ \E c \in Conns : CursorMove(c, "R1", NewPosition)
  \/ \E c \in Conns : SelectionChange(c, "R1", NewSelection)

SpecCursor == Init /\ [][NextCursor]_vars

(* ------------------------------ SpecInput ------------------------------ *)
\* One room whose members and other sockets write the shared stdin.
Inputs == {"42", "7 8"}

NextInput ==
  \/ \E c \in Conns : CreateRoom(c, "ann", "javascript", "R1", colors[1])
  \/ \E c \in Conns : JoinRoom(c, "R1", "bob", colors[2])
  \/ \E c \in Conns, i \in Inputs : InputChange(c, "R1", i)
  \/ \E c \in Conns : Disconnect(c)

SpecInput == Init /\ [][NextInput]_vars

(* ----------------------------- SpecReplica ----------------------------- *)
\* Tab A creates the room, tab B joins it, and both type code.
NextReplica ==
  \/ createRoom("A", "ann", "javascript")
  \/ joinRoomTab("B", "r1", "bob")
  \/ \E k \in Tabs, v \in Codes : TypeCode(k, v)
  \/ ReceiveCreateRoom("A", "R1", colors[1])
  \/ ReceiveJoinRoom("B", colors[2])
  \/ \E k \in Tabs : ReceiveCodeChange(k)
  \/ \E k \in Tabs, onChange \in BOOLEAN :
       \E ev \in {"room-created", "room-joined", "code-update"} :
         ClientReceive(k, ev, onChange)

SpecReplica == Init /\ [][NextReplica]_vars

(* ----------------------------- SpecJoinSync ---------------------------- *)
\* Tab A creates the room and writes its code, language and input while
\* tab B joins.
NextJoinSync ==
  \/ createRoom("A", "ann", "javascript")
  \/ joinRoomTab("B", "r1", "bob")
  \/ \E v \in Codes : TypeCode("A", v)
  \/ handleLanguageChange("A", "python")
  \/ \E v \in Inputs : handleInputChange("A", v)
  \/ ReceiveCreateRoom("A", "R1", colors[1])
  \/ ReceiveJoinRoom("B", colors[2])
  \/ ReceiveCodeChange("A")
  \/ ReceiveLanguageChange("A")
  \/ ReceiveInputChange("A")
  \/ \E k \in Tabs, ev \in ClientEvents, onChange \in BOOLEAN :
       ClientReceive(k, ev, onChange)

SpecJoinSync == Init /\ [][NextJoinSync]_vars

(* ---------------------------- SpecReconnect ---------------------------- *)
\* Tab A creates the room, tab B joins it, and the transport of a tab drops
\* and comes back.
NextReconnect ==
  \/ createRoom("A", "ann", "javascript")
  \/ joinRoomTab("B", "r1", "bob")
  \/ ReceiveCreateRoom("A", "R1", colors[1])
  \/ ReceiveJoinRoom("B", colors[2])
  \/ \E k \in Tabs, ev \in {"room-created", "room-joined"} :
       ClientReceive(k, ev, FALSE)
  \/ \E k \in Tabs : Drop(k)
  \/ \E k \in Tabs, c \in Conns : Reconnect(k, c)

SpecReconnect == Init /\ [][NextReconnect]_vars

(* ------------------------------ SpecLang ------------------------------- *)
\* Every language value, one room id; no clock.
NextLang ==
  \/ \E c \in Conns :
       CreateRoom(c, "ann", "javascript", "R1", colors[1])
  \/ \E c \in Conns :
       JoinRoom(c, "R1", "ann", colors[1])
  \/ \E c \in Conns :
       CodeChange(c, "R1", "x=1", Null)
  \/ \E c \in Conns, l \in LanguageValues :
       LanguageChange(c, "R1", l)
  \/ \E c \in Conns : Disconnect(c)

SpecLang == Init /\ [][NextLang]_vars

(* ======================================================================= *)
(*                                 Claims                                  *)
(* ======================================================================= *)
\* the emit calls of the last handler, of event ev, that reach socket d
Received(d, ev) == {m \in out : m.ev = ev /\ d \in m.to}
\* the last handler was ev and the room it named is in the registry
Applied(ev) == last.ev = ev /\ last.roomId \in DOMAIN rooms

(* ---- C1 ---- *)
\* C1: last writer wins for code.  Every code-change on a live room leaves
\* room.code equal to its payload; when a code-change e2 follows a
\* code-change e1 on the same room with another payload, room.code is e2's
\* and not e1's; and a join-room handled right after e2 gets e2's code in
\* its room-joined snapshot.
C1_LastWriterWins ==
  [][ /\ Applied("code-change")' =>
           rooms'[last'.roomId].code = last'.code
      /\ ( /\ Applied("code-change") /\ Applied("code-change")'
           /\ last'.roomId = last.roomId /\ last'.code # last.code )
         => rooms'[last'.roomId].code # last.code
      /\ ( /\ Applied("code-change") /\ Applied("join-room")'
           /\ last'.roomId = last.roomId )
         => \E m \in out' : /\ m.ev = "room-joined"
                            /\ m.to = {last'.conn}
                            /\ m.code = last.code ]_vars

\* a code-change has overwritten the payload of an earlier code-change
C1_Witness ==
  /\ Applied("code-change")
  /\ last.replaced \in Codes
  /\ last.replaced # last.code
  /\ rooms[last.roomId].code = last.code

(* ---- C2 ---- *)
\* C2: right after create-room the registry holds the new room, its member
\* map has exactly one entry, keyed by the creator, and the only emit is
\* room-created, to the creator alone, carrying the room id, code,
\* language, input, the creator's user and a member list of size 1.
C2_CreateYieldsSingleMemberRoom ==
  last.ev = "create-room" =>
    /\ last.roomId \in DOMAIN rooms
    /\ LET room == rooms[last.roomId]
       IN /\ DOMAIN room.users = {last.conn}
          /\ room.id = last.roomId
          /\ out = {[ev |-> "room-created", to |-> {last.conn},
                     roomId |-> last.roomId, code |-> room.code,
                     language |-> room.language, input |-> room.input,
                     user |-> room.users[last.conn], users |-> room.users]}
          /\ \A m \in out : Size(m.users) = 1

\* create-room was handled while another socket is in the broadcast group
\* of the generated id
C2_Witness ==
  /\ last.ev = "create-room"
  /\ Group(last.roomId) \ {last.conn} # {}
  /\ Received(last.conn, "room-created") # {}

(* ---- C3 ---- *)
\* what every join-room to a live room delivers: room-joined to the joiner
\* alone with the room's code, language, input and member list, the joiner
\* in the list; one user-joined with the same list to every other member,
\* none to the joiner
JoinDelivers ==
  LET c == last.conn
      room == rooms[last.roomId]
  IN /\ c \in DOMAIN room.users
     /\ \E m \in out :
          /\ Received(c, "room-joined") = {m}
          /\ m.to = {c}
          /\ m.code = room.code
          /\ m.language = room.language
          /\ m.input = room.input
          /\ m.users = room.users
     /\ \A d \in DOMAIN room.users \ {c} :
          \E m \in out : /\ Received(d, "user-joined") = {m}
                         /\ m.users = room.users
     /\ Received(c, "user-joined") = {}

\* a step that handles join-room for a room of the registry
JoinStep == last'.ev = "join-room" /\ last'.roomId \in DOMAIN rooms

JoinKeepsBuffers ==
  /\ rooms'[last'.roomId].code = rooms[last'.roomId].code
  /\ rooms'[last'.roomId].language = rooms[last'.roomId].language
  /\ rooms'[last'.roomId].input = rooms[last'.roomId].input

\* C3 as stated: a join-room to a live room with n members always yields
\* n+1 members.
C3_Original ==
  [][ JoinStep =>
        /\ Size(rooms'[last'.roomId].users)
             = Size(rooms[last'.roomId].users) + 1
        /\ JoinKeepsBuffers
        /\ JoinDelivers' ]_vars

\* C3 amended: a join-room to a live room with n members leaves the joiner
\* in the room; the member list has n+1 entries when the joiner was not a
\* member and n entries when it already was; room-joined goes to the
\* joiner with the room's code, language, input and that member list, and
\* every other member, never the joiner, gets user-joined with that list.
C3_JoinAddsJoiner ==
  [][ JoinStep =>
        /\ DOMAIN rooms'[last'.roomId].users
             = DOMAIN rooms[last'.roomId].users \cup {last'.conn}
        /\ Size(rooms'[last'.roomId].users)
             = IF last'.conn \in DOMAIN rooms[last'.roomId].users
               THEN Size(rooms[last'.roomId].users)
               ELSE Size(rooms[last'.roomId].users) + 1
        /\ JoinKeepsBuffers
        /\ JoinDelivers' ]_vars

\* a join made the room's third member and two members got user-joined
C3_Witness ==
  /\ Applied("join-room")
  /\ Size(rooms[last.roomId].users) = 3
  /\ \E m \in out : /\ m.ev = "user-joined"
                    /\ m.to = DOMAIN rooms[last.roomId].users \ {last.conn}

(* ---- C4 ---- *)
\* a step that handles join-room for an id that is not in the registry
JoinMiss == last'.ev = "join-room" /\ last'.roomId \notin DOMAIN rooms

RoomErrorToSenderOnly ==
  /\ out # {}
  /\ \A m \in out : m.ev = "room-error" /\ m.to = {last.conn}

\* C4 as stated: after a join-room to an unknown id the sender is
\* subscribed to no room's broadcasts.
C4_Original ==
  [][ JoinMiss =>
        /\ RoomErrorToSenderOnly'
        /\ rooms' = rooms
        /\ subs'[last'.conn] = {} ]_vars

\* C4 amended: a join-room to an id that is not in the registry replies
\* room-error to the sender only and changes nothing: the registry is the
\* same and every socket, the sender included, has the subscriptions it had
\* before (the join subscribes it to nothing).
C4_JoinMissHasNoEffect ==
  [][ JoinMiss =>
        /\ RoomErrorToSenderOnly'
        /\ rooms' = rooms
        /\ subs' = subs
        /\ connected' = connected ]_vars

\* a join-room to an unknown id was answered while a room is live and the
\* sender is subscribed to it
C4_Witness ==
  /\ last.ev = "join-room"
  /\ last.roomId \notin DOMAIN rooms
  /\ Received(last.conn, "room-error") # {}
  /\ DOMAIN rooms # {}
  /\ subs[last.conn] # {}

(* ---- C5 ---- *)
\* C5: a room whose only member disconnects leaves the registry in that
\* step and stays out until a create-room generates its id again; a
\* join-room to that id in between is answered room-error, to the sender.
C5_LastMemberDisconnectRemovesRoom ==
  /\ gone \cap DOMAIN rooms = {}
  /\ (last.ev = "join-room" /\ last.roomId \in gone)
       => RoomErrorToSenderOnly

\* a join-room named a room deleted by its last member's disconnect
C5_Witness ==
  /\ last.ev = "join-room"
  /\ last.roomId \in gone
  /\ Received(last.conn, "room-error") # {}

(* ---- C6 ---- *)
\* C6: every room of the registry has at least one member.
C6_NoEmptyRoom ==
  \A r \in DOMAIN rooms : Size(rooms[r].users) >= 1

\* a disconnect took a member out of a room that stays in the registry
C6_Witness ==
  /\ last.ev = "disconnect"
  /\ \E m \in out : /\ m.ev = "user-left"
                    /\ m.roomId \in DOMAIN rooms
                    /\ Size(rooms[m.roomId].users) = Size(m.users)

(* ---- C7 ---- *)
\* C7: create-room uses an id that is not the id of a live room, and
\* leaves every room of the registry in place and unchanged.
C7_CreateUsesFreshId ==
  [][ last'.ev = "create-room" =>
        /\ last'.roomId \notin DOMAIN rooms
        /\ \A r \in DOMAIN rooms :
             r \in DOMAIN rooms' /\ rooms'[r] = rooms[r] ]_vars

(* ---- C8 ---- *)
\* C8: after a code-change sent by a member of the room, every other member
\* has received exactly one code-update, with the new code and the sender's
\* id, and the sender has received nothing.
C8_CodeUpdateToOthersOnly ==
  (Applied("code-change") /\ last.conn \in DOMAIN rooms[last.roomId].users)
    => /\ \A d \in DOMAIN rooms[last.roomId].users \ {last.conn} :
            \E m \in out : /\ Received(d, "code-update") = {m}
                           /\ m.code = last.code
                           /\ m.userId = last.conn
       /\ \A m \in out : last.conn \notin m.to

\* a member of a three-member room sent a code-change
C8_Witness ==
  /\ Applied("code-change")
  /\ last.conn \in DOMAIN rooms[last.roomId].users
  /\ Size(rooms[last.roomId].users) = 3
  /\ \E m \in out : m.ev = "code-update" /\ Cardinality(m.to) = 2

(* ---- C9 ---- *)
\* the template of a language: its own for the five supported languages,
\* the JavaScript one for any other value
CanonicalTemplate(language) ==
  IF language \in SupportedLanguages
  THEN templates[language]
  ELSE templates["javascript"]

\* C9: after a language-change carrying L on a live room, room.language is
\* L and room.code is L's canonical template.
C9_LanguageChangeResetsCode ==
  Applied("language-change") =>
    /\ rooms[last.roomId].language = last.language
    /\ rooms[last.roomId].code = CanonicalTemplate(last.language)

(* ---- C10 ---- *)
\* C10: a language-change on a live room makes one language-update emit,
\* whose language and code are the room's language and code after the
\* change, and which reaches every member of the room, the sender included
\* when it is a member.
C10_LanguageUpdateToAll ==
  Applied("language-change") =>
    /\ \E m \in out :
         /\ out = {m}
         /\ m.ev = "language-update"
         /\ m.language = rooms[last.roomId].language
         /\ m.code = rooms[last.roomId].code
         /\ DOMAIN rooms[last.roomId].users \subseteq m.to

\* a member of a three-member room changed the language and received the
\* update itself
C10_Witness ==
  /\ Applied("language-change")
  /\ last.conn \in DOMAIN rooms[last.roomId].users
  /\ Size(rooms[last.roomId].users) = 3
  /\ Received(last.conn, "language-update") # {}
  /\ rooms[last.roomId].code # templates["javascript"]

(* ---- C11 ---- *)
\* a step that handles the disconnect of open socket c
DisconnectStep(c) == c \in connected /\ c \notin connected'

\* C11: when a member of a room with at least two members disconnects, the
\* room stays in the registry without that member and with the same code,
\* language and input, and every remaining member receives one user-left
\* for the room, with the departing id and name and the remaining members
\* as list.
C11_DisconnectKeepsSharedRoom ==
  [][ \A c \in Conns : \A r \in DOMAIN rooms :
        ( /\ DisconnectStep(c)
          /\ c \in DOMAIN rooms[r].users
          /\ Size(rooms[r].users) >= 2 )
        => /\ r \in DOMAIN rooms'
           /\ rooms'[r] = [rooms[r] EXCEPT
                             !.users = MapDeleteAll(@, {c})]
           /\ \A d \in DOMAIN rooms'[r].users :
                \E m \in out' :
                  /\ {x \in out' : /\ x.ev = "user-left" /\ x.roomId = r
                                   /\ d \in x.to} = {m}
                  /\ m.userId = c
                  /\ m.username = rooms[r].users[c].username
                  /\ m.users = rooms'[r].users
                  /\ c \notin DOMAIN m.users ]_vars

\* a member of a three-member room that had code written to it has
\* disconnected and the two others got user-left
C11_Witness ==
  /\ last.ev = "disconnect"
  /\ \E m \in out :
       /\ m.ev = "user-left"
       /\ m.roomId \in DOMAIN rooms
       /\ m.to = DOMAIN rooms[m.roomId].users
       /\ Cardinality(m.to) = 2
       /\ rooms[m.roomId].code \in Codes

(* ---- C12 ---- *)
\* C12: handling the disconnect notification of a socket a second time
\* changes nothing (same rooms, members, buffers, subscriptions) and sends
\* no user-left.
C12_SecondDisconnectIsNoOp ==
  [][ \A c \in Conns :
        (last'.ev = "disconnect" /\ last'.conn = c /\ c \notin connected)
        => /\ rooms' = rooms
           /\ subs' = subs
           /\ connected' = connected
           /\ out' = {} ]_vars

\* a second delivery was handled for a socket that had been the member of
\* a room that is still in the registry
C12_Witness ==
  /\ last.ev = "disconnect"
  /\ last.conn \notin connected
  /\ "delivery" \in DOMAIN last
  /\ DOMAIN rooms # {}
  /\ gone # {}

(* ---- C13 ---- *)
\* C13: a closed socket is a member of no room; its disconnect makes one
\* user-left emit for every room it was a member of and deletes each of
\* those rooms that has no member left.
C13_DisconnectLeavesEveryRoom ==
  /\ [](\A r \in DOMAIN rooms : DOMAIN rooms[r].users \subseteq connected)
  /\ [][ \A c \in Conns : DisconnectStep(c) =>
           /\ \A r \in RoomsOf(c) :
                /\ Cardinality({m \in out' : /\ m.ev = "user-left"
                                             /\ m.roomId = r
                                             /\ m.userId = c}) = 1
                /\ (DOMAIN rooms[r].users = {c} => r \notin DOMAIN rooms')
           /\ \A m \in out' : m.roomId \in RoomsOf(c) ]_vars

\* a socket that was a member of two rooms has disconnected: one user-left
\* for each, one room deleted and one kept
C13_Witness ==
  /\ last.ev = "disconnect"
  /\ Cardinality({m.roomId : m \in out}) = 2
  /\ Cardinality(DOMAIN rooms) = 1

(* ---- C14 ---- *)
\* the events whose payload names a room
RoomEvents ==
  {"join-room", "code-change", "cursor-move", "selection-change",
   "language-change", "input-change", "chat-message", "typing"}

\* the event handled last named a room id that is not in the registry
NamedAbsentRoom ==
  /\ last.ev \in RoomEvents
  /\ last.roomId \notin DOMAIN rooms

\* C14: every event that names a room id absent from the registry gets a
\* "room not found" failure sent to the sender, and mutates nothing.
C14_AbsentRoomIsReported ==
  [][ NamedAbsentRoom' =>
        /\ RoomErrorToSenderOnly'
        /\ rooms' = rooms
        /\ subs' = subs ]_vars

(* ---- C15 ---- *)
\* C15: every event that changes a room that stays in the registry, or one
\* of its users, sets the room's lastActivity to the time of the event.
C15_MutationStampsLastActivity ==
  [][ \A r \in DOMAIN rooms \cap DOMAIN rooms' :
        rooms'[r] # rooms[r] => rooms'[r].lastActivity = now' ]_vars

(* ---- C16 ---- *)
\* C16: one run of the idle cleanup deletes every room whose lastActivity
\* is more than 24 hours before the time of the run, with or without
\* members, and leaves every other room as it was.
C16_SweepRemovesExactlyIdleRooms ==
  [][ (last'.ev = "cleanup" /\ now' = now) =>
        /\ DOMAIN rooms' =
             {r \in DOMAIN rooms :
                ~ (now - rooms[r].lastActivity > TWENTY_FOUR_HOURS)}
        /\ \A r \in DOMAIN rooms' : rooms'[r] = rooms[r] ]_vars

\* a cleanup has deleted one room that had a member and kept the other
C16_Witness ==
  /\ last.ev = "cleanup"
  /\ last.removed # {}
  /\ \E r \in DOMAIN rooms : now - rooms[r].lastActivity = TWENTY_FOUR_HOURS
  /\ \E c \in Conns : last.removed \cap subs[c] # {}

(* ---- C17 ---- *)
\* the events that write a room's buffers
BufferEvents == {"code-change", "input-change", "language-change"}

\* the fields C17 speaks of
Buffers(room) ==
  <<room.code, room.input, room.language, room.lastActivity>>

\* C17: a code-change, input-change or language-change that names a live
\* room and comes from a socket that is not in that room's member map
\* leaves the room's code, input, language and lastActivity unchanged.
C17_OnlyMembersWriteBuffers ==
  [][ \A r \in DOMAIN rooms :
        ( /\ last'.ev \in BufferEvents
          /\ last'.roomId = r
          /\ last'.conn \notin DOMAIN rooms[r].users
          /\ connected' = connected )
        => /\ r \in DOMAIN rooms'
           /\ Buffers(rooms'[r]) = Buffers(rooms[r]) ]_vars

(* ---- C18 ---- *)
\* the event handled last named a live room and lacked its required field
LacksRequiredField ==
  /\ last.ev \in {"code-change", "input-change", "language-change",
                  "cursor-move"}
  /\ last.roomId \in DOMAIN rooms
  /\ \/ last.ev = "code-change" /\ last.code = Undefined
     \/ last.ev = "input-change" /\ last.input = Undefined
     \/ last.ev = "language-change" /\ last.language = Undefined
     \/ last.ev = "cursor-move" /\ last.position = Undefined

\* C18: an event whose payload lacks its required field is rejected: the
\* sender gets a reply, no room or user field changes and nothing is sent
\* to anybody else.
C18_MalformedEventRejected ==
  [][ LacksRequiredField' =>
        /\ rooms' = rooms
        /\ out' # {}
        /\ \A m \in out' : m.to = {last'.conn} ]_vars

(* ---- C19 ---- *)
\* C19: no event, with or without a payload object, makes its listener
\* fail with an unhandled error: after the event every room that was in
\* the registry still is and every connection is still served.
C19_NoEventFailsAListener ==
  [][ last'.ev \in PayloadEvents =>
        /\ "error" \notin DOMAIN last'
        /\ connected' = connected
        /\ DOMAIN rooms \subseteq DOMAIN rooms' ]_vars

(* ---- C20 ---- *)
\* C20: a socket id is a key of the member map of at most one room.
C20_AtMostOneRoomPerSocket ==
  \A c \in Conns : Cardinality(RoomsOf(c)) <= 1

(* ---- C21 ---- *)
\* C21: the member map of a room never has more than 10 entries.
C21_AtMostTenMembers ==
  \A r \in DOMAIN rooms : Size(rooms[r].users) <= MaxUsersPerRoom

(* ---- C22 ---- *)
\* request q has written its source and its callback has not run yet
InFlight(q) == reqs[q].phase \in {"running", "exited"}

\* C22: two /api/execute requests in flight at the same time write, run
\* and delete disjoint source and artifact paths.
C22_ExecutionFilesDisjoint ==
  \A p, q \in Reqs :
    (p # q /\ InFlight(p) /\ InFlight(q))
    => CleanedUp(p) \cap CleanedUp(q) = {}

(* ---- C26 ---- *)
\* request q was sent with a non-empty code and a supported language
WellFormed(q) ==
  /\ reqs[q].phase # "new"
  /\ Truthy(reqs[q].code)
  /\ reqs[q].language \in DOMAIN extension

\* request q has been answered
Answered(q) == reqs[q].phase \in {"done", "shown"}

\* C26: a request with non-empty code and a supported language gets
\* exactly one response, eventually: never two, and once answered the one
\* response is an HTTP 200 payload whose success flag tells whether the
\* program ended normally (false for a non-zero exit and for the timeout).
C26_ExactlyOneResponse ==
  /\ [](\A q \in Reqs : Len(reqs[q].responses) <= 1)
  /\ [](\A q \in Reqs :
          (WellFormed(q) /\ Answered(q))
          => /\ Len(reqs[q].responses) = 1
             /\ reqs[q].responses[1].status = 200
             /\ reqs[q].responses[1].success = (reqs[q].outcome = "ok"))
  /\ \A q \in Reqs : WellFormed(q) ~> Answered(q)

\* one request was killed by the timeout and one ended normally, and both
\* have their response
C26_Witness ==
  \E p, q \in Reqs :
    /\ WellFormed(p) /\ Answered(p) /\ reqs[p].outcome = "timeout"
    /\ reqs[p].responses[1].success = FALSE
    /\ WellFormed(q) /\ Answered(q) /\ reqs[q].outcome = "ok"
    /\ reqs[q].responses[1].success = TRUE

(* ---- C27 ---- *)
\* the output panel of client d shows the output of request q
SeesOutput(d, q) ==
  /\ Answered(q)
  /\ shown[d] = reqs[q].responses[1].output

\* sockets c and d are members of the same room
RoomMates(c, d) ==
  \E r \in DOMAIN rooms : {c, d} \subseteq DOMAIN rooms[r].users

\* C27: when a member of a room has run the code, every member of that
\* room eventually sees the output of that run.
C27_EveryMemberSeesOutput ==
  \A q \in Reqs : \A d \in Conns :
    (reqs[q].phase = "running" /\ RoomMates(reqs[q].conn, d))
    ~> SeesOutput(d, q)

(* ---- C23 ---- *)
\* C23: a chat-message sent by a member of a live room makes one
\* chat-message emit that reaches every current member of the room, the
\* sender included, and carries the sender's id, its current username and
\* color, the text, and an id that no earlier chat-message had.
C23_ChatReachesAllMembers ==
  [][ \A c \in Conns : \A r \in DOMAIN rooms :
        ( /\ last'.ev = "chat-message" /\ last'.conn = c
          /\ last'.roomId = r
          /\ uuids' # uuids
          /\ c \in DOMAIN rooms[r].users )
        => \E m \in out' :
             /\ out' = {m}
             /\ m.ev = "chat-message"
             /\ DOMAIN rooms[r].users \subseteq m.to
             /\ c \in m.to
             /\ m.userId = c
             /\ m.username = rooms[r].users[c].username
             /\ m.color = rooms[r].users[c].color
             /\ m.message = last'.message
             /\ m.id = <<"uuid", uuids'>>
             /\ uuids' > uuids ]_vars

\* the second chat message, sent by a member that joined under another
\* name than the creator's, has reached at least two members
C23_Witness ==
  /\ last.ev = "chat-message"
  /\ uuids = 2
  /\ \E m \in out :
       /\ m.ev = "chat-message"
       /\ m.id = <<"uuid", 2>>
       /\ m.username = "bob"
       /\ Cardinality(m.to) >= 2
       /\ m.userId \in m.to

(* ---- C24 ---- *)
\* C24: a ping is answered by one pong, sent to the pinging socket only,
\* whose clientTimestamp is the timestamp of the ping.
C24_PongToSenderOnly ==
  last.ev = "ping"
  => \E m \in out :
       /\ out = {m}
       /\ m.ev = "pong"
       /\ m.to = {last.conn}
       /\ m.clientTimestamp = last.timestamp

\* a socket that is in no room got its pong while two others share a room
C24_Witness ==
  /\ last.ev = "ping"
  /\ last.timestamp # Undefined
  /\ RoomsOf(last.conn) = {}
  /\ \E r \in DOMAIN rooms : Size(rooms[r].users) = 2
  /\ \E m \in out : m.ev = "pong" /\ m.to = {last.conn}

(* ---- C30 ---- *)
\* the events that only relay
RelayEvents == {"chat-message", "typing", "ping"}

\* C30: chat-message, typing and ping change no server state: the registry
\* holds the same rooms with the same fields and members, and no socket's
\* subscriptions change.
C30_RelayEventsKeepState ==
  [][ last'.ev \in RelayEvents =>
        /\ rooms' = rooms
        /\ subs' = subs
        /\ connected' = connected ]_vars

\* a typing event of a member of a two-member room has been relayed to
\* the other member
C30_Witness ==
  /\ last.ev = "typing"
  /\ last.roomId \in DOMAIN rooms
  /\ last.conn \in DOMAIN rooms[last.roomId].users
  /\ \E m \in out : m.ev = "user-typing" /\ m.to # {}
  /\ uuids > 0

(* ---- C25 ---- *)
\* the pairs of ids that have the same letters in different case
CasePairs == {{"r1", "R1"}, {"zzz999", "ZZZ999"}}

\* the live rooms whose id differs from id at most in letter case
SameButCase(id) ==
  {r \in DOMAIN rooms : r = id \/ {r, id} \in CasePairs}

\* C25 as stated: a join-room whose id differs from a live room's id at
\* most in letter case joins that room.
C25_Original ==
  [][ \A r \in DOMAIN rooms :
        (last'.ev = "join-room" /\ r \in SameButCase(last'.roomId))
        => /\ r \in DOMAIN rooms'
           /\ last'.conn \in DOMAIN rooms'[r].users ]_vars

\* C25 amended: the server looks the id of a join-room up as it is (a
\* lower-case form of a live id gets room-error and changes nothing); the
\* client's joinRoom sends the typed id in upper case, so a user who types
\* a lower-case form of a live id joins that room.
C25_ClientNormalizesCase ==
  [][ /\ ( /\ last'.ev = "join-room"
           /\ last'.roomId \notin DOMAIN rooms )
        => /\ RoomErrorToSenderOnly'
           /\ rooms' = rooms
           /\ subs' = subs
      /\ \A r \in DOMAIN rooms :
           ( /\ last'.ev = "join-room"
             /\ "typed" \in DOMAIN last'
             /\ SameButCase(last'.typed) = {r} )
           => /\ last'.roomId = r
              /\ last'.conn \in DOMAIN rooms'[r].users
              /\ r \in subs'[last'.conn] ]_vars

\* a user that typed the lower-case id has joined the live room of another
\* socket
C25_Witness ==
  /\ last.ev = "join-room"
  /\ "typed" \in DOMAIN last
  /\ last.typed = "r1"
  /\ "R1" \in DOMAIN rooms
  /\ last.conn \in DOMAIN rooms["R1"].users
  /\ Size(rooms["R1"].users) >= 2

(* ---- C28 ---- *)
\* the user record u with its cursorPosition and selection blanked
WithoutCursor(u) == [u EXCEPT !.cursorPosition = Null, !.selection = Null]

\* C28: a cursor-move or selection-change from socket c on room r changes
\* at most the cursorPosition (for cursor-move) or the selection (for
\* selection-change) of c's own user record in r; every other user record,
\* every other field of r and every other room stay as they were, and
\* nothing at all changes when c is not a member of r.
C28_CursorScopedToSender ==
  [][ \A c \in Conns : \A r \in DOMAIN rooms :
        ( /\ last'.ev \in {"cursor-move", "selection-change"}
          /\ last'.conn = c /\ last'.roomId = r )
        => /\ DOMAIN rooms' = DOMAIN rooms
           /\ \A x \in DOMAIN rooms \ {r} : rooms'[x] = rooms[x]
           /\ [rooms'[r] EXCEPT !.users = <<>>] =
                [rooms[r] EXCEPT !.users = <<>>]
           /\ DOMAIN rooms'[r].users = DOMAIN rooms[r].users
           /\ \A d \in DOMAIN rooms[r].users \ {c} :
                rooms'[r].users[d] = rooms[r].users[d]
           /\ c \in DOMAIN rooms[r].users =>
                /\ WithoutCursor(rooms'[r].users[c]) =
                     WithoutCursor(rooms[r].users[c])
                /\ last'.ev = "cursor-move" =>
                     rooms'[r].users[c].selection =
                       rooms[r].users[c].selection
                /\ last'.ev = "selection-change" =>
                     rooms'[r].users[c].cursorPosition =
                       rooms[r].users[c].cursorPosition
           /\ subs' = subs ]_vars

\* a member of a two-member room has moved its cursor while the other
\* member keeps the selection it made and a second room exists
C28_Witness ==
  /\ last.ev = "cursor-move"
  /\ Cardinality(DOMAIN rooms) = 2
  /\ last.roomId \in DOMAIN rooms
  /\ LET users == rooms[last.roomId].users
     IN /\ last.conn \in DOMAIN users
        /\ users[last.conn].cursorPosition = NewPosition
        /\ \E d \in DOMAIN users \ {last.conn} :
             /\ users[d].selection = NewSelection
             /\ users[d].cursorPosition = DefaultCursor

(* ---- C29 ---- *)
\* the events C29 speaks of
MemberEvents ==
  {"code-change", "cursor-move", "selection-change", "input-change",
   "chat-message", "typing"}

\* C29: an event that names a live room and comes from a socket that is
\* not in the room's member map sends nothing to anybody.
C29_NonMemberEventSendsNothing ==
  [][ \A r \in DOMAIN rooms :
        ( /\ last'.ev \in MemberEvents
          /\ last'.roomId = r
          /\ last'.conn \notin DOMAIN rooms[r].users )
        => \A m \in out' : m.to = {} ]_vars

(* ---- C31 ---- *)
\* C31: an input-change from a member of a live room leaves room.input
\* equal to its payload, whoever wrote the input before; it makes one
\* input-update emit with that value, which reaches every other member
\* and not the sender; and a join-room handled right after it gets that
\* input in its room-joined snapshot.
C31_InputLastWriterWins ==
  [][ /\ \A r \in DOMAIN rooms :
           ( /\ last'.ev = "input-change" /\ last'.roomId = r
             /\ last'.conn \in DOMAIN rooms[r].users )
           => /\ rooms'[r] = [rooms[r] EXCEPT !.input = last'.input,
                                              !.lastActivity = now]
              /\ \E m \in out' :
                   /\ out' = {m}
                   /\ m.ev = "input-update"
                   /\ m.input = last'.input
                   /\ DOMAIN rooms[r].users \ {last'.conn} \subseteq m.to
                   /\ last'.conn \notin m.to
      /\ ( /\ Applied("input-change") /\ Applied("join-room")'
           /\ last'.roomId = last.roomId )
         => \E m \in out' : /\ m.ev = "room-joined"
                            /\ m.to = {last'.conn}
                            /\ m.input = last.input ]_vars

\* a member has overwritten the input another write had left, and the
\* other member got the input-update
C31_Witness ==
  /\ Applied("input-change")
  /\ last.replaced \in Inputs
  /\ last.replaced # last.input
  /\ rooms[last.roomId].input = last.input
  /\ last.conn \in DOMAIN rooms[last.roomId].users
  /\ \E m \in out : m.ev = "input-update" /\ m.to # {}

(* ---- C32 ---- *)
\* C32: the room stored under registry key k has id k, the user stored
\* under member key c has id c, and the id of a room does not change while
\* the room stays in the registry.
C32_IdentifiersMatchKeys ==
  /\ [](\A k \in DOMAIN rooms :
          /\ rooms[k].id = k
          /\ \A c \in DOMAIN rooms[k].users : rooms[k].users[c].id = c)
  /\ [][ \A k \in DOMAIN rooms \cap DOMAIN rooms' :
           rooms'[k].id = rooms[k].id ]_vars

\* both rooms are in the registry, one of them with two members
C32_Witness ==
  /\ DOMAIN rooms = RoomIds
  /\ \E k \in DOMAIN rooms : Size(rooms[k].users) = 2
  /\ last.ev = "join-room"

(* ---- C33 ---- *)
\* C33: for every room of the registry, the sockets subscribed to the
\* broadcast group of its id are exactly the keys of its member map.
C33_GroupIsMemberSet ==
  \A r \in DOMAIN rooms : Group(r) = DOMAIN rooms[r].users

(* ---- C38 ---- *)
\* the step is a create-room that stored a room under key r
CreatesRoom(r) ==
  /\ last'.ev = "create-room" /\ last'.roomId = r
  /\ now' = now

\* C38: lastActivity is never earlier than createdAt; from one state to
\* the next the lastActivity of the room under a key never decreases, and
\* its createdAt stays the same unless a create-room stored a new room
\* under that key.
C38_TimestampsMonotone ==
  /\ [](\A r \in DOMAIN rooms : rooms[r].lastActivity >= rooms[r].createdAt)
  /\ [][ \A r \in DOMAIN rooms \cap DOMAIN rooms' :
           /\ rooms'[r].lastActivity >= rooms[r].lastActivity
           /\ ~ CreatesRoom(r) => rooms'[r].createdAt = rooms[r].createdAt
       ]_vars

\* a room created at time 0 was joined or written to at the last clock
\* value
C38_Witness ==
  \E r \in DOMAIN rooms :
    /\ rooms[r].createdAt = 0
    /\ rooms[r].lastActivity = MaxTime
    /\ last.ev \in {"join-room", "code-change", "language-change"}

(* ---- C39 ---- *)
\* C39: the language of every room is one of the five supported ones, and
\* right after a create-room or a language-change the code of the room is
\* the template of the room's language.
C39_LanguageSupportedAndTemplated ==
  \A r \in DOMAIN rooms :
    /\ rooms[r].language \in SupportedLanguages
    /\ (last.ev \in {"create-room", "language-change"} /\ last.roomId = r)
       => rooms[r].code = templates[rooms[r].language]

(* ---- C40 ---- *)
\* the step is a join-room of socket c to room r, of which c is a member
Rejoin(c, r) ==
  /\ last'.ev = "join-room" /\ last'.conn = c /\ last'.roomId = r
  /\ now' = now
  /\ r \in DOMAIN rooms
  /\ c \in DOMAIN rooms[r].users

Quiet == \A k \in Tabs : clients[k].outbox = <<>> /\ clients[k].inbox = <<>>

\* tab k shows room r and its socket is a user of r
ShowsRoom(k, r) ==
  /\ clients[k].inRoom /\ clients[k].roomId = r
  /\ r \in DOMAIN rooms
  /\ clients[k].sid \in DOMAIN rooms[r].users

\* C34: when every message in flight has been delivered, the code shown by
\* the client of every member of a room is the code the server holds for
\* the room.
C34_ReplicasConverge ==
  Quiet => \A k \in Tabs : \A r \in DOMAIN rooms :
             ShowsRoom(k, r) => clients[k].code = rooms[r].code

(* ---- C35 ---- *)
\* tab k handles a received message in this step
Receives(k) == Len(clients'[k].inbox) < Len(clients[k].inbox)

\* the user of tab k types in this step
Types(k) == clients'[k].acts = clients[k].acts + 1 /\ clients[k].inRoom

RECURSIVE Replay(_, _)
Replay(t, box) ==
  IF box = <<>> THEN t ELSE Replay(Handle(t, Head(box)), Tail(box))

\* C36: for a tab whose socket is a user of a room and whose user has typed
\* nothing, the room-joined snapshot and the updates delivered to it,
\* applied in the order they arrive, give the code, language and input the
\* server holds for the room: every change is in the snapshot or comes
\* after it, in the order the server applied them.
C36_NoUpdateLostAroundJoin ==
  \A k \in Tabs : \A r \in DOMAIN rooms :
    (/\ clients[k].sid \in DOMAIN rooms[r].users
     /\ ~ clients[k].edited)
    => LET v == Replay(clients[k], clients[k].inbox)
       IN /\ v.inRoom /\ v.roomId = r
          /\ v.code = rooms[r].code
          /\ v.language = rooms[r].language
          /\ v.input = rooms[r].input

\* tab B joined between two changes of tab A: its room-joined holds the
\* first one and the update for the second is queued behind it
C36_Witness ==
  /\ Len(clients["B"].inbox) >= 2
  /\ clients["B"].inbox[1].ev = "room-joined"
  /\ clients["B"].inbox[1].code \in Codes
  /\ clients["B"].inbox[2].ev = "code-update"
  /\ clients["B"].inbox[2].code # clients["B"].inbox[1].code
  /\ "R1" \in DOMAIN rooms
  /\ rooms["R1"].code = clients["B"].inbox[2].code

(* ---- C37 ---- *)
\* C37: a tab that shows the in-room state while its connection is up has
\* its current socket id among the users of the room it shows.
C37_ClientAndServerAgree ==
  \A k \in Tabs :
    (clients[k].inRoom /\ clients[k].isConnected)
    => /\ clients[k].roomId \in DOMAIN rooms
       /\ clients[k].sid \in DOMAIN rooms[clients[k].roomId].users

=============================================================================
